---- MODULE Spec2Model ----
(***************************************************************************)
(* Model of the two command-line front ends of mad-con:                    *)
(*   src/cli.js      the interactive batch converter                       *)
(*   src/convert.js  the non-interactive batch converter                   *)
(* Both discover media files, then drive the transcoding engine one file   *)
(* at a time.  The engine, the terminal and the filesystem are the         *)
(* environment: the engine emits progress events and then one terminal     *)
(* event, the user types one line per prompt, the filesystem answers stat, *)
(* readdir and exists.                                                     *)
(*                                                                         *)
(* A JavaScript string that the code parses or trims is a sequence of      *)
(* one-character strings; a string the code only compares is a TLA+        *)
(* string.  A path is a record [dir, base, ext]: dir is the sequence of    *)
(* the directory's components, base and ext are what path.basename(p,      *)
(* path.extname(p)) and path.extname(p) return.                            *)
(***************************************************************************)
EXTENDS Integers, Sequences, FiniteSets, TLC

VARIABLES
  variant,        \* "cli" (src/cli.js) or "convert" (src/convert.js)
  argv,           \* process.argv.slice(2)
  fs,             \* the filesystem: directory -> listing, in readdir order
  pc,             \* where the main flow is suspended
  exitCode,       \* the process's exit code, "none" while it runs
  run,            \* number of the pass through the do/while of cli.js
  restart,        \* cli.js: let restart
  inputPaths,     \* const inputPaths
  finalScale,     \* cli.js finalScale, convert.js scale
  finalFps,       \* cli.js finalFps, convert.js fps
  format,         \* const format ("null" when the format prompt resolved to null)
  videoFiles,     \* cli.js videoFiles, convert.js mediaFiles
  outputFolder,   \* const outputFolder
  completedFiles, \* let completedFiles
  overwriteAll,   \* let overwriteAll
  skipAll,        \* let skipAll
  idx,            \* position of the for..of loop in videoFiles (1-based)
  inFlight,       \* engine jobs started and not yet settled
  progress,       \* progress events delivered for the job in flight
  asked,          \* prompts answered in this pass (scale, fps, format)
  engineLog,      \* every ffmpeg(...).save(...) call, in order
  engineResult,   \* per file: terminal event the engine emitted
  outcome,        \* per file: what the loop did with it (converted, skipped, failed)
  promptLog,      \* every overwrite prompt shown, with its answer
  line            \* the line most recently read from the terminal

vars == <<variant, argv, fs, pc, exitCode, run, restart, inputPaths, finalScale,
          finalFps, format, videoFiles, outputFolder, completedFiles,
          overwriteAll, skipAll, idx, inFlight, progress, asked, engineLog,
          engineResult, outcome, promptLog, line>>

-----------------------------------------------------------------------------
(* Bounds of the model *)

MaxRuns == 2        \* passes through the do/while of cli.js
MaxProgress == 1    \* progress events per conversion
MaxInputLen == 3    \* length of the generated lines typed at the scale and fps prompts

-----------------------------------------------------------------------------
(* Strings *)

Digits == {"0", "1", "2", "3", "4", "5", "6", "7", "8", "9"}

DigitVal(c) ==
  CASE c = "0" -> 0 [] c = "1" -> 1 [] c = "2" -> 2 [] c = "3" -> 3
    [] c = "4" -> 4 [] c = "5" -> 5 [] c = "6" -> 6 [] c = "7" -> 7
    [] c = "8" -> 8 [] c = "9" -> 9

AUTO == <<"a", "u", "t", "o">>

RECURSIVE TrimLeft(_)
TrimLeft(s) ==
  IF s # <<>> /\ Head(s) = " " THEN TrimLeft(Tail(s)) ELSE s

RECURSIVE TrimRight(_)
TrimRight(s) ==
  IF s # <<>> /\ s[Len(s)] = " " THEN TrimRight(SubSeq(s, 1, Len(s) - 1)) ELSE s

\* String.prototype.trim
Trim(s) == TrimRight(TrimLeft(s))

\* the longest prefix of s made of decimal digits
RECURSIVE DigitPrefix(_)
DigitPrefix(s) ==
  IF s # <<>> /\ Head(s) \in Digits
    THEN <<Head(s)>> \o DigitPrefix(Tail(s))
    ELSE <<>>

RECURSIVE DigitsValue(_)
DigitsValue(ds) ==
  IF ds = <<>> THEN 0
  ELSE 10 * DigitsValue(SubSeq(ds, 1, Len(ds) - 1)) + DigitVal(ds[Len(ds)])

RECURSIVE Pow10(_)
Pow10(n) == IF n = 0 THEN 1 ELSE 10 * Pow10(n - 1)

Rest(s, n) == SubSeq(s, n + 1, Len(s))

NaN == [nan |-> TRUE, neg |-> FALSE, num |-> 0, den |-> 1]

\* parseFloat(s): optional sign, digits, optional "." and digits; whatever
\* follows the longest numeric prefix is ignored.  The value is num/den.
\* (Exponents and "Infinity" are not in the alphabet of the inputs.)
parseFloat(s0) ==
  LET s == TrimLeft(s0)
      signed == s # <<>> /\ Head(s) \in {"+", "-"}
      body == IF signed THEN Tail(s) ELSE s
      ip == DigitPrefix(body)
      afterInt == Rest(body, Len(ip))
      fp == IF afterInt # <<>> /\ Head(afterInt) = "."
              THEN DigitPrefix(Tail(afterInt)) ELSE <<>>
  IN IF ip = <<>> /\ fp = <<>> THEN NaN
     ELSE [nan |-> FALSE, neg |-> signed /\ Head(s) = "-",
           num |-> DigitsValue(ip \o fp), den |-> Pow10(Len(fp))]

\* parseInt(s, 10): optional sign and the longest digit prefix.
parseInt(s0) ==
  LET s == TrimLeft(s0)
      signed == s # <<>> /\ Head(s) \in {"+", "-"}
      body == IF signed THEN Tail(s) ELSE s
      ip == DigitPrefix(body)
  IN IF ip = <<>> THEN NaN
     ELSE [nan |-> FALSE, neg |-> signed /\ Head(s) = "-",
           num |-> DigitsValue(ip), den |-> 1]

\* String.prototype.toLowerCase on the extensions and format names in use
toLowerCase(s) ==
  CASE s = ".MP4" -> ".mp4"
    [] s = ".AVI" -> ".avi"
    [] s = "GIF" -> "gif"
    [] s = "MP4" -> "mp4"
    [] OTHER -> s

-----------------------------------------------------------------------------
(* Prompt validation (cli.js) *)

ScaleMinHundredths == 25     \* scaleValue >= 0.25
ScaleMaxHundredths == 300    \* scaleValue <= 3.0
FpsMin == 8                  \* fpsValue >= 8
FpsMax == 60                 \* fpsValue <= 60

Null == [null |-> TRUE, value |-> <<>>]
Value(v) == [null |-> FALSE, value |-> v]

\* const validateScale = (input) => ...
validateScale(input) ==
  IF input = <<>> \/ input = AUTO THEN Value(AUTO)
  ELSE LET scaleValue == parseFloat(input)
       IN IF /\ ~scaleValue.nan
             /\ ~scaleValue.neg
             /\ 100 * scaleValue.num >= ScaleMinHundredths * scaleValue.den
             /\ 100 * scaleValue.num <= ScaleMaxHundredths * scaleValue.den
            THEN Value(input)
            ELSE Null

\* const validateFps = (input) => ...
validateFps(input) ==
  IF input = <<>> \/ input = AUTO THEN Value(AUTO)
  ELSE LET fpsValue == parseInt(input)
       IN IF /\ ~fpsValue.nan
             /\ ~fpsValue.neg
             /\ fpsValue.num >= FpsMin
             /\ fpsValue.num <= FpsMax
            THEN Value(input)
            ELSE Null

\* the switch of promptUserFormat
formatOf(trimmedAnswer) ==
  CASE trimmedAnswer = <<"1">> -> "gif"
    [] trimmedAnswer = <<"2">> -> "mp4"
    [] trimmedAnswer = <<"3">> -> "webm"
    [] trimmedAnswer = <<"4">> -> "mov"
    [] trimmedAnswer = <<"5">> -> "avi"
    [] OTHER -> "null"

Formats == {"gif", "mp4", "webm", "mov", "avi"}

-----------------------------------------------------------------------------
(* Engine options.  An option is the sequence of the pieces of its string: *)
(* the literal part, then the characters of the interpolated value; the    *)
(* empty string is <<>>.                                                   *)

filterBoolean(list) == SelectSeq(list, LAMBDA x : x # <<>>)

\* src/cli.js getConversionOptions
getConversionOptionsCli(fmt, scale, fps) ==
  LET scaleFilter == IF scale # <<>> /\ scale # AUTO
                       THEN <<"-vf scale=">> \o scale
                       ELSE <<"-vf scale=-1:-1">>
      fpsFilter == IF fps # <<>> /\ fps # AUTO
                     THEN <<"-vf fps=">> \o fps
                     ELSE <<>>
  IN filterBoolean(<<scaleFilter, <<"-gifflags">>, <<"transdiff">>, <<"-y">>, fpsFilter>>)

\* src/convert.js getConversionOptions
getConversionOptionsConvert(fmt, scale, fps) ==
  LET scaleFilter == IF scale # <<>> /\ scale # AUTO
                       THEN <<"-vf scale=">> \o scale
                       ELSE <<>>
      fpsFilter == IF fps # <<>> /\ fps # AUTO
                     THEN <<"-vf fps=">> \o fps
                     ELSE <<>>
  IN filterBoolean(<<scaleFilter, <<"-gifflags">>, <<"transdiff">>, <<"-y">>, fpsFilter>>)

-----------------------------------------------------------------------------
(* Paths and the filesystem *)

File(b, e) == [base |-> b, ext |-> e, kind |-> "file"]
Dir(b, e) == [base |-> b, ext |-> e, kind |-> "dir"]

\* the directory a path names, as a key of fs
Key(p) == Append(p.dir, <<p.base, p.ext>>)

Entries(f, p) ==
  IF p.dir \in DOMAIN f
    THEN SelectSeq(f[p.dir], LAMBDA e : e.base = p.base /\ e.ext = p.ext)
    ELSE <<>>

\* fs.existsSync
existsSync(f, p) == Entries(f, p) # <<>>

\* fs.statSync(p).isFile() / .isDirectory(); statSync throws when p is absent
isFile(f, p) == existsSync(f, p) /\ Entries(f, p)[1].kind = "file"
isDirectory(f, p) == existsSync(f, p) /\ Entries(f, p)[1].kind = "dir"

\* fs.readdirSync
readdirSync(f, p) == IF Key(p) \in DOMAIN f THEN f[Key(p)] ELSE <<>>

\* path.join(inputPath, file)
join(p, e) == [dir |-> Key(p), base |-> e.base, ext |-> e.ext]

\* path.dirname
dirname(p) == p.dir

\* path.join(outputFolder, path.basename(file, path.extname(file)) + `.${format}`)
outputFileOf(folder, file, fmt) ==
  [dir |-> folder,
   base |-> file.base,
   ext |-> CASE fmt = "gif" -> ".gif" [] fmt = "mp4" -> ".mp4"
             [] fmt = "webm" -> ".webm" [] fmt = "mov" -> ".mov"
             [] fmt = "avi" -> ".avi"]

\* the engine wrote (or, with remove, someone deleted) the file at p
writeFile(f, p) ==
  IF existsSync(f, p) \/ p.dir \notin DOMAIN f THEN f
  ELSE [f EXCEPT ![p.dir] = Append(@, File(p.base, p.ext))]

removeFile(f, p) ==
  IF p.dir \notin DOMAIN f THEN f
  ELSE [f EXCEPT ![p.dir] =
          SelectSeq(@, LAMBDA e : ~(e.base = p.base /\ e.ext = p.ext))]

-----------------------------------------------------------------------------
(* Discovery *)

\* getVideoFiles without the isFile() test on directory entries
videoFilesOfAnyKind(f, inputPath) ==
  IF isDirectory(f, inputPath)
    THEN LET files == readdirSync(f, inputPath)
             kept == SelectSeq(files, LAMBDA file :
                       toLowerCase(join(inputPath, file).ext) = ".mp4")
         IN [i \in 1..Len(kept) |-> join(inputPath, kept[i])]
    ELSE IF isFile(f, inputPath) /\ toLowerCase(inputPath.ext) = ".mp4"
           THEN <<inputPath>>
           ELSE <<>>

\* src/cli.js getVideoFiles: the files one input path contributes
videoFilesOf(f, inputPath) ==
  IF isDirectory(f, inputPath)
    THEN LET files == readdirSync(f, inputPath)
             kept == SelectSeq(files, LAMBDA file :
                       /\ isFile(f, join(inputPath, file))
                       /\ toLowerCase(join(inputPath, file).ext) = ".mp4")
         IN [i \in 1..Len(kept) |-> join(inputPath, kept[i])]
    ELSE IF isFile(f, inputPath) /\ toLowerCase(inputPath.ext) = ".mp4"
           THEN <<inputPath>>
           ELSE <<>>

RECURSIVE getVideoFiles(_, _)
getVideoFiles(f, paths) ==
  IF paths = <<>> THEN <<>>
  ELSE videoFilesOf(f, Head(paths)) \o getVideoFiles(f, Tail(paths))

extensions == {".mp4", ".avi", ".jpg", ".jpeg", ".png"}

\* src/convert.js getMediaFiles: the files one input path contributes
mediaFilesOf(f, inputPath) ==
  IF isDirectory(f, inputPath)
    THEN LET files == readdirSync(f, inputPath)
             kept == SelectSeq(files, LAMBDA file :
                       /\ isFile(f, join(inputPath, file))
                       /\ toLowerCase(join(inputPath, file).ext) \in extensions)
         IN [i \in 1..Len(kept) |-> join(inputPath, kept[i])]
    ELSE IF isFile(f, inputPath) /\ toLowerCase(inputPath.ext) \in extensions
           THEN <<inputPath>>
           ELSE <<>>

RECURSIVE getMediaFiles(_, _)
getMediaFiles(f, paths) ==
  IF paths = <<>> THEN <<>>
  ELSE mediaFilesOf(f, Head(paths)) \o getMediaFiles(f, Tail(paths))

\* fs.statSync(inputPath) throws for a path that does not exist
statThrows(f, paths) == \E i \in 1..Len(paths) : ~existsSync(f, paths[i])

\* src/cli.js parseArguments: keeps the arguments that are existing directories
parseArguments(f, args) ==
  SelectSeq(args, LAMBDA arg : existsSync(f, arg) /\ isDirectory(f, arg))

-----------------------------------------------------------------------------
(* The inputs of the model: filesystems, command lines, typed answers *)

DirA == [dir |-> <<>>, base |-> "A", ext |-> ""]
DirB == [dir |-> <<>>, base |-> "B", ext |-> ""]
Missing == [dir |-> <<>>, base |-> "N", ext |-> ""]
FileInA == [dir |-> Key(DirA), base |-> "a", ext |-> ".mp4"]

ListingsA ==
  { <<File("a", ".mp4"), File("b", ".mp4"), File("b", ".gif")>>,
    <<File("a", ".mp4"), File("b", ".txt"), File("c", ".MP4")>>,
    <<>> }

ListingsB ==
  { <<File("e", ".mp4")>>,
    <<File("a", ".mp4"), Dir("d", ".mp4"), File("f", ".avi")>> }

Filesystems ==
  { [k \in {<<>>, Key(DirA), Key(DirB)} |->
       IF k = <<>> THEN <<Dir("A", ""), Dir("B", "")>>
       ELSE IF k = Key(DirA) THEN la ELSE lb] : la \in ListingsA, lb \in ListingsB }

PathLists ==
  { <<>>, <<DirA>>, <<DirA, DirB>>, <<DirB, DirA>>, <<Missing, DirA>>,
    <<FileInA, DirB>> }

ArgScales == { AUTO, <<"0", ".", "5">>, <<>> }
ArgFpss == { AUTO, <<"3", "0">> }
ArgFormats == { "gif", "GIF", "xyz" }

\* what the user may type at the prompts
ScaleAnswers == { <<>>, <<" ", "0", ".", "5">>, <<"a", "b", "c">> }
FpsAnswers == { AUTO, <<"3", "0">>, <<"7">> }
FormatAnswers == { <<"1">>, <<"2">>, <<"3", " ">>, <<"x">> }
StartAnswers == { <<"1">>, <<"2">>, <<"3">>, <<"x">> }
OverwriteAnswers == { <<"0">>, <<"1">>, <<"2">>, <<"3">>, <<"4">>, <<"x">>, <<>> }

Pending == <<"?">>

-----------------------------------------------------------------------------
(* Initial state: the process has been started with some command line on   *)
(* some filesystem and has not yet run a statement of its main flow.       *)

Init ==
  /\ variant \in {"cli", "convert"}
  /\ fs \in Filesystems
  /\ \E ps \in PathLists :
       \/ /\ variant = "cli"
          /\ argv = [paths |-> ps, tail |-> <<>>]
       \/ /\ variant = "convert"
          /\ \E f \in ArgFormats, s \in ArgScales, r \in ArgFpss :
               argv = [paths |-> ps, tail |-> <<<<f>>, s, r>>]
  /\ pc = "init"
  /\ exitCode = "none"
  /\ run = 1
  /\ restart = FALSE
  /\ inputPaths = <<>>
  /\ finalScale = <<>>
  /\ finalFps = <<>>
  /\ format = "null"
  /\ videoFiles = <<>>
  /\ outputFolder = <<>>
  /\ completedFiles = 0
  /\ overwriteAll = FALSE
  /\ skipAll = FALSE
  /\ idx = 1
  /\ inFlight = {}
  /\ progress = 0
  /\ asked = {}
  /\ engineLog = <<>>
  /\ engineResult = <<>>
  /\ outcome = <<>>
  /\ promptLog = <<>>
  /\ line = <<>>

envVars == <<variant, argv>>
settingVars == <<finalScale, finalFps, format>>
runVars == <<run, restart, inputPaths, asked>>
batchVars == <<videoFiles, outputFolder>>
flagVars == <<overwriteAll, skipAll>>
engineVars == <<inFlight, progress, engineLog, engineResult>>

-----------------------------------------------------------------------------
(* Pieces of the file loop shared by the actions below *)

NoneFor(files) == [i \in 1..Len(files) |-> "none"]

\* the job the engine is given for the file at position i
jobFor(i) ==
  LET file == videoFiles[i]
      outputFile == outputFileOf(outputFolder, file, format)
  IN [idx |-> i, input |-> file, output |-> outputFile, run |-> run,
      options |-> IF variant = "cli"
                    THEN getConversionOptionsCli(format, finalScale, finalFps)
                    ELSE getConversionOptionsConvert(format, finalScale, finalFps)]

\* mutant of awaitConvert: the call is not awaited, the loop goes on at once
awaitConvertDropped(i) == [pc |-> "iter", idx |-> i + 1]

\* `await convertVideo(...)` / `await convertMedia(...)`: the loop is
\* suspended at file i until the returned promise settles
awaitConvert(i) == [pc |-> "convert", idx |-> i]

\* ffmpeg(inputPath).outputOptions(...).on(...).save(outputPath), awaited
IssueConvert ==
  /\ inFlight' = inFlight \cup {jobFor(idx)}
  /\ engineLog' = Append(engineLog, jobFor(idx))
  /\ progress' = 0
  /\ pc' = awaitConvert(idx).pc
  /\ idx' = awaitConvert(idx).idx
  /\ UNCHANGED <<fs, exitCode, completedFiles, engineResult, outcome>>

\* `continue`: the file is left alone
SkipFile ==
  /\ outcome' = [outcome EXCEPT ![idx] = "skipped"]
  /\ idx' = idx + 1
  /\ pc' = "iter"
  /\ UNCHANGED <<fs, exitCode, completedFiles, engineVars>>

-----------------------------------------------------------------------------
(* src/cli.js: the interactive flow *)

\* mutant of restartPc: the restart re-enters the pass after the three prompts
restartPcAfterPrompts == "start"

\* the pass of the do/while that a `continue` with restart = true leads to:
\* the condition holds and the body starts again at parseArguments
restartPc == "scale"

\* the per-run state declared at lines 371-373
newRun == [completedFiles |-> 0, overwriteAll |-> FALSE, skipAll |-> FALSE]

\* restart = true; continue;
Restart ==
  /\ run < MaxRuns
  /\ restart' = TRUE
  /\ run' = run + 1
  /\ pc' = restartPc
  /\ inputPaths' = parseArguments(fs, argv.paths)
  /\ asked' = {}

\* the first pass: parseArguments, then promptUserScale is waiting for a line
StartCli ==
  /\ variant = "cli"
  /\ pc = "init"
  /\ inputPaths' = parseArguments(fs, argv.paths)
  /\ pc' = "scale"
  /\ UNCHANGED line
  /\ UNCHANGED <<envVars, fs, exitCode, run, restart, asked, settingVars, batchVars,
                 completedFiles, flagVars, idx, engineVars, outcome, promptLog>>

\* promptUserScale receives a line
AnswerScale(answer) ==
  /\ pc = "scale"
  /\ LET scale == validateScale(Trim(answer))
     IN IF scale.null
          THEN UNCHANGED <<pc, finalScale, asked>>      \* while (!scale): asks again
          ELSE /\ finalScale' = scale.value
               /\ asked' = asked \cup {"scale"}
               /\ pc' = "fps"
  /\ line' = answer
  /\ UNCHANGED <<envVars, fs, exitCode, run, restart, inputPaths, finalFps, format,
                 batchVars, completedFiles, flagVars, idx, engineVars, outcome,
                 promptLog>>

\* promptUserFps receives a line
AnswerFps(answer) ==
  /\ pc = "fps"
  /\ LET fps == validateFps(Trim(answer))
     IN IF fps.null
          THEN UNCHANGED <<pc, finalFps, asked>>        \* while (!fps): asks again
          ELSE /\ finalFps' = fps.value
               /\ asked' = asked \cup {"fps"}
               /\ pc' = "format"
  /\ line' = answer
  /\ UNCHANGED <<envVars, fs, exitCode, run, restart, inputPaths, finalScale, format,
                 batchVars, completedFiles, flagVars, idx, engineVars, outcome,
                 promptLog>>

\* promptUserFormat receives a line; lines 352-376 follow without suspension
AnswerFormat(answer) ==
  /\ pc = "format"
  /\ format' = formatOf(Trim(answer))
  /\ IF format' = "null"
       THEN /\ Restart
            /\ UNCHANGED <<exitCode, batchVars, completedFiles, flagVars, idx,
                           engineResult, outcome>>
       ELSE LET files == getVideoFiles(fs, inputPaths)
            IN /\ videoFiles' = files
               /\ asked' = asked \cup {"format"}
               /\ engineResult' = NoneFor(files)
               /\ outcome' = NoneFor(files)
               /\ IF Len(files) = 0
                    THEN /\ pc' = "done"                \* return
                         /\ exitCode' = "0"
                         /\ UNCHANGED <<outputFolder, completedFiles, flagVars>>
                    ELSE /\ outputFolder' = dirname(files[1])
                         /\ completedFiles' = newRun.completedFiles
                         /\ overwriteAll' = newRun.overwriteAll
                         /\ skipAll' = newRun.skipAll
                         /\ pc' = "start"
                         /\ UNCHANGED exitCode
               /\ UNCHANGED <<run, restart, inputPaths, idx>>
  /\ line' = answer
  /\ UNCHANGED <<envVars, fs, finalScale, finalFps, inFlight, progress, engineLog,
                 promptLog>>

\* mutant of startDecision: case '1' misses its resolve and reaches the default
startDecisionNeverStarts(trimmedAnswer) ==
  CASE trimmedAnswer = <<"2">> -> "restart"
    [] trimmedAnswer = <<"3">> -> "exit"
    [] OTHER -> "again"

\* mutant of startDecision: the default case resolves true like case '1'
startDecisionDefaultStarts(trimmedAnswer) ==
  CASE trimmedAnswer = <<"2">> -> "restart"
    [] trimmedAnswer = <<"3">> -> "exit"
    [] OTHER -> "start"

\* switch (trimmedAnswer) of promptStartConversion
startDecision(trimmedAnswer) ==
  CASE trimmedAnswer = <<"1">> -> "start"         \* resolve(true)
    [] trimmedAnswer = <<"2">> -> "restart"       \* resolve(false)
    [] trimmedAnswer = <<"3">> -> "exit"          \* process.exit(0)
    [] OTHER -> "again"                           \* promptStartConversion().then(resolve)

\* promptStartConversion receives a line
AnswerStart(answer) ==
  /\ pc = "start"
  /\ LET d == startDecision(Trim(answer))
     IN CASE d = "start" ->
               /\ pc' = "iter"
               /\ idx' = 1
               /\ UNCHANGED <<exitCode, runVars>>
          [] d = "restart" ->
               /\ Restart
               /\ UNCHANGED <<exitCode, idx>>
          [] d = "exit" ->
               /\ pc' = "exited"
               /\ exitCode' = "0"
               /\ UNCHANGED <<idx, runVars>>
          [] d = "again" ->
               UNCHANGED <<pc, exitCode, idx, runVars>>
  /\ line' = answer
  /\ UNCHANGED <<envVars, fs, settingVars, batchVars, completedFiles, flagVars,
                 engineVars, outcome, promptLog>>

\* mutant of shouldPrompt: the test forgets skipAll
shouldPromptIgnoringSkipAll(oa, sa) == ~oa

\* if (!overwriteAll && !skipAll), evaluated when the output file exists
\* the condition with `&& !overwriteAll` left out
shouldPromptIgnoringOverwriteAll(oa, sa) == ~sa

shouldPrompt(oa, sa) == ~oa /\ ~sa

\* one turn of `for (const file of videoFiles)` up to its first suspension
LoopStepCli ==
  /\ variant = "cli"
  /\ pc = "iter"
  /\ IF idx > Len(videoFiles)
       THEN /\ pc' = "done"                             \* restart = false; loop ends
            /\ restart' = FALSE
            /\ exitCode' = "0"
            /\ UNCHANGED <<fs, idx, completedFiles, engineVars, outcome, promptLog>>
       ELSE LET outputFile == outputFileOf(outputFolder, videoFiles[idx], format)
            IN /\ UNCHANGED restart
               /\ IF existsSync(fs, outputFile) /\ shouldPrompt(overwriteAll, skipAll)
                    THEN /\ pc' = "overwrite"
                         /\ promptLog' = Append(promptLog,
                              [idx |-> idx, answer |-> Pending,
                               completed |-> completedFiles, outcome |-> outcome])
                         /\ UNCHANGED <<fs, exitCode, idx, completedFiles, engineVars,
                                        outcome>>
                    ELSE /\ UNCHANGED promptLog
                         /\ IF skipAll THEN SkipFile ELSE IssueConvert
  /\ UNCHANGED line
  /\ UNCHANGED <<envVars, run, inputPaths, asked, settingVars, batchVars, flagVars>>

\* mutant of overwriteDecision: case '4' skips the file without setting skipAll
overwriteDecisionSkipAllNotSet(userResponse, oa, sa) ==
  CASE userResponse = <<"0">> -> [act |-> "exit", overwriteAll |-> oa, skipAll |-> sa]
    [] userResponse = <<"2">> -> [act |-> "convert", overwriteAll |-> TRUE, skipAll |-> sa]
    [] userResponse = <<"4">> -> [act |-> "skip", overwriteAll |-> oa, skipAll |-> sa]
    [] userResponse = <<"3">> -> [act |-> "skip", overwriteAll |-> oa, skipAll |-> sa]
    [] OTHER -> [act |-> "convert", overwriteAll |-> oa, skipAll |-> sa]

\* mutant of overwriteDecision: the default case shares the body of case '2'
overwriteDecisionDefaultOverwritesAll(userResponse, oa, sa) ==
  CASE userResponse = <<"0">> -> [act |-> "exit", overwriteAll |-> oa, skipAll |-> sa]
    [] userResponse = <<"4">> -> [act |-> "skip", overwriteAll |-> oa, skipAll |-> TRUE]
    [] userResponse = <<"3">> -> [act |-> "skip", overwriteAll |-> oa, skipAll |-> sa]
    [] userResponse = <<"1">> -> [act |-> "convert", overwriteAll |-> oa, skipAll |-> sa]
    [] OTHER -> [act |-> "convert", overwriteAll |-> TRUE, skipAll |-> sa]

\* mutant of overwriteDecision: the default case skips the file
overwriteDecisionDefaultSkips(userResponse, oa, sa) ==
  CASE userResponse = <<"0">> -> [act |-> "exit", overwriteAll |-> oa, skipAll |-> sa]
    [] userResponse = <<"2">> -> [act |-> "convert", overwriteAll |-> TRUE, skipAll |-> sa]
    [] userResponse = <<"4">> -> [act |-> "skip", overwriteAll |-> oa, skipAll |-> TRUE]
    [] userResponse = <<"3">> -> [act |-> "skip", overwriteAll |-> oa, skipAll |-> sa]
    [] userResponse = <<"1">> -> [act |-> "convert", overwriteAll |-> oa, skipAll |-> sa]
    [] OTHER -> [act |-> "skip", overwriteAll |-> oa, skipAll |-> sa]

\* switch (userResponse) of the file loop
\* the switch with case '0' falling through to the conversion
overwriteDecisionCancelFallsThrough(userResponse, oa, sa) ==
  CASE userResponse = <<"2">> -> [act |-> "convert", overwriteAll |-> TRUE, skipAll |-> sa]
    [] userResponse = <<"4">> -> [act |-> "skip", overwriteAll |-> oa, skipAll |-> TRUE]
    [] userResponse = <<"3">> -> [act |-> "skip", overwriteAll |-> oa, skipAll |-> sa]
    [] OTHER -> [act |-> "convert", overwriteAll |-> oa, skipAll |-> sa]

overwriteDecision(userResponse, oa, sa) ==
  CASE userResponse = <<"0">> -> [act |-> "exit", overwriteAll |-> oa, skipAll |-> sa]
    [] userResponse = <<"2">> -> [act |-> "convert", overwriteAll |-> TRUE, skipAll |-> sa]
    [] userResponse = <<"4">> -> [act |-> "skip", overwriteAll |-> oa, skipAll |-> TRUE]
    [] userResponse = <<"3">> -> [act |-> "skip", overwriteAll |-> oa, skipAll |-> sa]
    [] OTHER -> [act |-> "convert", overwriteAll |-> oa, skipAll |-> sa]

\* promptUserConfirmation receives a line; the switch and what follows it run
AnswerOverwrite(answer) ==
  /\ pc = "overwrite"
  /\ LET userResponse == Trim(answer)
         d == overwriteDecision(userResponse, overwriteAll, skipAll)
     IN /\ promptLog' = [promptLog EXCEPT ![Len(promptLog)].answer = userResponse]
        /\ overwriteAll' = d.overwriteAll
        /\ skipAll' = d.skipAll
        /\ CASE d.act = "exit" ->
                  /\ pc' = "exited"                     \* process.exit(1)
                  /\ exitCode' = "1"
                  /\ UNCHANGED <<fs, idx, completedFiles, engineVars, outcome>>
             [] d.act = "skip" -> SkipFile
             [] d.act = "convert" ->
                  IF d.skipAll THEN SkipFile ELSE IssueConvert
  /\ line' = answer
  /\ UNCHANGED <<envVars, runVars, settingVars, batchVars>>

-----------------------------------------------------------------------------
(* The engine's events and the handlers convertVideo / convertMedia         *)
(* register for them, with the continuation of the awaiting loop           *)

\* mutant of tryConvertVideo: no catch, the rejection ends the process
tryConvertVideoUncaught(resolved, n) ==
  IF resolved
    THEN [pc |-> "iter", completedFiles |-> n + 1, outcome |-> "converted"]
    ELSE [pc |-> "crashed", completedFiles |-> n, outcome |-> "none"]

\* the try block with a rejection that never reaches the loop
tryConvertVideoNeverSettles(resolved, n) ==
  IF resolved
    THEN [pc |-> "iter", completedFiles |-> n + 1, outcome |-> "converted"]
    ELSE [pc |-> "convert", completedFiles |-> n, outcome |-> "none"]

\* cli.js: try { await convertVideo(...); completedFiles++ } catch (err) { log }
tryConvertVideo(resolved, n) ==
  IF resolved
    THEN [pc |-> "iter", completedFiles |-> n + 1, outcome |-> "converted"]
    ELSE [pc |-> "iter", completedFiles |-> n, outcome |-> "failed"]

\* convert.js: try { await convertMedia(...); completedFiles++ } catch (err) { log }
tryConvertMedia(resolved, n) ==
  IF resolved
    THEN [pc |-> "iter", completedFiles |-> n + 1, outcome |-> "converted"]
    ELSE [pc |-> "iter", completedFiles |-> n, outcome |-> "failed"]

\* the promise of `job` settles; the loop resumes if it is awaiting that job
Settle(job, resolved) ==
  IF pc = "convert" /\ idx = job.idx
    THEN LET k == IF variant = "cli"
                    THEN tryConvertVideo(resolved, completedFiles)
                    ELSE tryConvertMedia(resolved, completedFiles)
         IN /\ pc' = k.pc
            /\ completedFiles' = k.completedFiles
            /\ outcome' = [outcome EXCEPT ![job.idx] = k.outcome]
            /\ idx' = IF k.pc = "iter" THEN idx + 1 ELSE idx
            /\ exitCode' = IF k.pc = "crashed" THEN "1" ELSE exitCode
    ELSE UNCHANGED <<pc, completedFiles, outcome, idx, exitCode>>

\* .on('progress', ...): only writes to the terminal
EngineProgress ==
  /\ inFlight # {}
  /\ progress < MaxProgress
  /\ progress' = progress + 1
  /\ UNCHANGED line
  /\ UNCHANGED <<envVars, fs, pc, exitCode, runVars, settingVars, batchVars,
                 completedFiles, flagVars, idx, inFlight, engineLog, engineResult,
                 outcome, promptLog>>

\* .on('end', ...) with both fs.statSync calls of cli.js succeeding, or in
\* convert.js (which does not stat): log, then resolve()
EngineEnd ==
  /\ \E job \in inFlight :
       /\ inFlight' = inFlight \ {job}
       /\ fs' = writeFile(fs, job.output)
       /\ engineResult' = [engineResult EXCEPT ![job.idx] = "end"]
       /\ Settle(job, TRUE)
  /\ UNCHANGED line
  /\ UNCHANGED <<envVars, runVars, settingVars, batchVars, flagVars, progress,
                 engineLog, promptLog>>

\* .on('end', ...) in cli.js when fs.statSync(inputPath) or
\* fs.statSync(outputPath) throws (the file is gone): the exception leaves
\* the listener before resolve() is reached and nothing calls reject(); it
\* is thrown into the emitter's caller, outside every try block of cli.js,
\* and ends the process as an uncaught exception.
EngineEndStatThrows ==
  /\ variant = "cli"
  /\ \E job \in inFlight, gone \in {"input", "output"} :
       /\ inFlight' = inFlight \ {job}
       /\ fs' = IF gone = "input"
                  THEN removeFile(writeFile(fs, job.output), job.input)
                  ELSE removeFile(fs, job.output)
       /\ engineResult' = [engineResult EXCEPT ![job.idx] = "endStatFail"]
  /\ pc' = "crashed"
  /\ exitCode' = "1"
  /\ UNCHANGED line
  /\ UNCHANGED <<envVars, runVars, settingVars, batchVars, completedFiles, flagVars,
                 idx, progress, engineLog, outcome, promptLog>>

\* .on('error', ...): log, then reject(err.message); the engine may or may
\* not have left an output file behind
EngineError ==
  /\ \E job \in inFlight, wrote \in BOOLEAN :
       /\ inFlight' = inFlight \ {job}
       /\ fs' = IF wrote THEN writeFile(fs, job.output) ELSE fs
       /\ engineResult' = [engineResult EXCEPT ![job.idx] = "error"]
       /\ Settle(job, FALSE)
  /\ UNCHANGED line
  /\ UNCHANGED <<envVars, runVars, settingVars, batchVars, flagVars, progress,
                 engineLog, promptLog>>

-----------------------------------------------------------------------------
(* src/convert.js: the non-interactive flow *)

\* main() from its first line to the start of the file loop
MainConvert ==
  /\ variant = "convert"
  /\ pc = "init"
  /\ LET nargs == Len(argv.paths) + Len(argv.tail)
         fmt == toLowerCase(argv.tail[1][1])
         files == getMediaFiles(fs, argv.paths)
     IN IF nargs < 4
          THEN /\ pc' = "exited"                        \* usage; process.exit(1)
               /\ exitCode' = "1"
               /\ UNCHANGED <<inputPaths, settingVars, batchVars, engineResult,
                              outcome>>
          ELSE /\ inputPaths' = argv.paths
               /\ format' = fmt
               /\ finalScale' = argv.tail[2]
               /\ finalFps' = argv.tail[3]
               /\ IF fmt \notin Formats
                    THEN /\ pc' = "exited"              \* process.exit(1)
                         /\ exitCode' = "1"
                         /\ UNCHANGED <<batchVars, engineResult, outcome>>
                    ELSE IF statThrows(fs, argv.paths)
                      THEN /\ pc' = "crashed"           \* statSync throws in main()
                           /\ exitCode' = "1"
                           /\ UNCHANGED <<batchVars, engineResult, outcome>>
                      ELSE /\ videoFiles' = files
                           /\ engineResult' = NoneFor(files)
                           /\ outcome' = NoneFor(files)
                           /\ IF Len(files) = 0
                                THEN /\ pc' = "exited"  \* process.exit(1)
                                     /\ exitCode' = "1"
                                     /\ UNCHANGED outputFolder
                                ELSE /\ outputFolder' = dirname(files[1])
                                     /\ pc' = "iter"
                                     /\ UNCHANGED exitCode
  /\ completedFiles' = 0
  /\ idx' = 1
  /\ UNCHANGED line
  /\ UNCHANGED <<envVars, fs, run, restart, asked, flagVars, inFlight, progress,
                 engineLog, promptLog>>

\* the test without the look at the filesystem
skipExistingNever(f, outputFile) == FALSE

\* convert.js: if (fs.existsSync(outputFile)) { log; continue; }
skipExisting(f, outputFile) == existsSync(f, outputFile)

\* one turn of `for (const file of mediaFiles)` up to its first suspension
LoopStepConvert ==
  /\ variant = "convert"
  /\ pc = "iter"
  /\ IF idx > Len(videoFiles)
       THEN /\ pc' = "done"
            /\ exitCode' = "0"
            /\ UNCHANGED <<fs, idx, completedFiles, engineVars, outcome>>
       ELSE LET outputFile == outputFileOf(outputFolder, videoFiles[idx], format)
            IN IF skipExisting(fs, outputFile) THEN SkipFile ELSE IssueConvert
  /\ UNCHANGED line
  /\ UNCHANGED <<envVars, runVars, settingVars, batchVars, flagVars, promptLog>>

-----------------------------------------------------------------------------

Next ==
  \/ StartCli
  \/ \E answer \in ScaleAnswers : AnswerScale(answer)
  \/ \E answer \in FpsAnswers : AnswerFps(answer)
  \/ \E answer \in FormatAnswers : AnswerFormat(answer)
  \/ \E answer \in StartAnswers : AnswerStart(answer)
  \/ LoopStepCli
  \/ \E answer \in OverwriteAnswers : AnswerOverwrite(answer)
  \/ EngineProgress
  \/ EngineEnd
  \/ EngineEndStatThrows
  \/ EngineError
  \/ MainConvert
  \/ LoopStepConvert

Spec == Init /\ [][Next]_vars

-----------------------------------------------------------------------------
(* Properties *)

Positions == 1..Len(videoFiles)
Prompts == 1..Len(promptLog)
Calls == 1..Len(engineLog)
Recognized == { <<"0">>, <<"1">>, <<"2">>, <<"3">>, <<"4">> }
Invoked(i) == \E c \in Calls : engineLog[c].idx = i
LastAnswer == promptLog[Len(promptLog)].answer

\* C1: once "4" (skip all remaining) has been answered at the overwrite
\* prompt of file k, the engine is invoked for no file at position >= k
\* (whether or not that file's output exists), file k and every later file
\* the loop reaches are skipped, the files before k keep the outcome they
\* had, and completedFiles keeps the value it had at the prompt.
C1_SkipAllStopsEngine ==
  \A j \in Prompts :
    promptLog[j].answer = <<"4">> =>
      LET k == promptLog[j].idx
      IN /\ \A c \in Calls : engineLog[c].idx < k
         /\ outcome[k] = "skipped"
         /\ \A i \in Positions : i > k => outcome[i] \in {"none", "skipped"}
         /\ \A i \in Positions : i > k /\ i < idx => outcome[i] = "skipped"
         /\ pc = "done" => \A i \in Positions : i >= k => outcome[i] = "skipped"
         /\ \A i \in Positions : i < k => outcome[i] = promptLog[j].outcome[i]
         /\ completedFiles = promptLog[j].completed

\* the scenario of the batch example: 3 files, the output of file 2 exists,
\* "4" at file 2, the output of file 3 does not exist
C1_Witness ==
  /\ variant = "cli"
  /\ pc = "done"
  /\ Len(videoFiles) = 3
  /\ Len(promptLog) = 1
  /\ promptLog[1].idx = 2
  /\ promptLog[1].answer = <<"4">>
  /\ ~existsSync(fs, outputFileOf(outputFolder, videoFiles[3], format))
  /\ outcome = <<"converted", "skipped", "skipped">>
  /\ completedFiles = 1

\* C2: for every engine invocation the output path is in the directory of
\* the input file, with the input's base name and the extension of the format.
C2_OutputBesideInput ==
  \A c \in Calls :
    /\ engineLog[c].output.dir = engineLog[c].input.dir
    /\ engineLog[c].output.base = engineLog[c].input.base
    /\ engineLog[c].output = outputFileOf(engineLog[c].input.dir, engineLog[c].input, format)

EngineErrorStep ==
  \E i \in Positions : engineResult[i] # "error" /\ engineResult'[i] = "error"

\* C3: when the engine emits an error event for the file at idx, the process
\* does not exit, the file is recorded as failed, completedFiles and the
\* overwrite flags are unchanged and the loop moves to position idx + 1; a
\* batch that ends has dealt with every file, and every crash comes from a
\* failed stat, never from an engine error.
C3_ErrorDoesNotStopBatch ==
  /\ [][EngineErrorStep =>
          /\ pc' = "iter"
          /\ idx' = idx + 1
          /\ exitCode' = "none"
          /\ outcome' = [outcome EXCEPT ![idx] = "failed"]
          /\ completedFiles' = completedFiles
          /\ overwriteAll' = overwriteAll
          /\ skipAll' = skipAll]_vars
  /\ [](pc = "done" => \A i \in Positions : outcome[i] # "none")
  /\ [](pc = "crashed" /\ videoFiles # <<>> =>
          \E i \in Positions : engineResult[i] = "endStatFail")

\* a file failed with an engine error and a later file was converted
C3_Witness ==
  \E i, j \in Positions :
    /\ i < j
    /\ engineResult[i] = "error"
    /\ outcome[i] = "failed"
    /\ outcome[j] = "converted"

\* C4: at most one conversion is in flight, it is the one the loop awaits;
\* the engine is invoked in discovery order, and every invocation but the
\* last has settled with a completion or error event.
C4_OneConversionAtATime ==
  /\ Cardinality(inFlight) <= 1
  /\ \A job \in inFlight :
       /\ pc = "convert"
       /\ job.idx = idx
       /\ job = engineLog[Len(engineLog)]
  /\ \A c, d \in Calls : c < d => engineLog[c].idx < engineLog[d].idx
  /\ \A c \in Calls : c < Len(engineLog) =>
       engineResult[engineLog[c].idx] \in {"end", "error"}

\* a second conversion is in flight after the first has settled
C4_Witness ==
  /\ Len(engineLog) >= 2
  /\ inFlight # {}
  /\ progress > 0

PromptCondition ==
  /\ idx \in Positions
  /\ existsSync(fs, outputFileOf(outputFolder, videoFiles[idx], format))
  /\ ~overwriteAll
  /\ ~skipAll

\* C5: in cli.js the overwrite prompt is shown for a file if and only if
\* its output path exists and neither overwriteAll nor skipAll is set; after
\* an answer of "2" or "4" no further overwrite prompt is shown.
C5_PromptIffExistsAndNoFlag ==
  /\ [][variant = "cli" /\ pc = "iter" =>
          (pc' = "overwrite" <=> PromptCondition)]_vars
  /\ [][pc' = "overwrite" /\ pc # "overwrite" => variant = "cli" /\ pc = "iter"]_vars
  /\ [](\A j \in Prompts :
          promptLog[j].answer \in {<<"2">>, <<"4">>} => j = Len(promptLog))

\* "2" was answered at file 1 and file 2, whose output exists (with format
\* mp4 the output of an .mp4 file is the file itself), was converted unasked
C5_Witness ==
  /\ format = "mp4"
  /\ Len(promptLog) = 1
  /\ promptLog[1].idx = 1
  /\ promptLog[1].answer = <<"2">>
  /\ Len(videoFiles) >= 2
  /\ videoFiles[2].ext = ".mp4"
  /\ outcome[2] = "converted"

\* C6: in a pass that follows a restart, scale, fps and format have been
\* asked again in that pass before the start prompt and the file loop, and
\* the loop starts with overwriteAll = false, skipAll = false and
\* completedFiles = 0.
C6_RestartIsFreshRun ==
  variant = "cli" /\ run > 1 =>
    /\ pc \in {"start", "iter", "overwrite", "convert", "done", "exited", "crashed"} =>
         asked = {"scale", "fps", "format"}
    /\ pc = "start" \/ (pc = "iter" /\ idx = 1) =>
         /\ overwriteAll = FALSE
         /\ skipAll = FALSE
         /\ completedFiles = 0
         /\ promptLog = <<>>
         /\ engineLog = <<>>

\* the file loop of a second pass is about to take its first file
C6_Witness ==
  /\ variant = "cli"
  /\ run = 2
  /\ restart = TRUE
  /\ pc = "iter"
  /\ idx = 1
  /\ videoFiles # <<>>

AnsweredStep == pc = "overwrite" /\ pc' # "overwrite"

\* C7: an answer of "1", or one that is none of 0,1,2,3,4, at the overwrite
\* prompt leaves overwriteAll and skipAll unchanged and starts the
\* conversion of the file the prompt was about.
C7_DefaultFallsThrough ==
  [][AnsweredStep /\ LastAnswer' \notin {<<"0">>, <<"2">>, <<"3">>, <<"4">>} =>
       /\ overwriteAll' = overwriteAll
       /\ skipAll' = skipAll
       /\ pc' = "convert"
       /\ idx' = idx
       /\ Len(engineLog') = Len(engineLog) + 1
       /\ engineLog'[Len(engineLog')].idx = idx
       /\ inFlight' = {engineLog'[Len(engineLog')]}]_vars

\* the conversion of a file is in flight after the answer "1" at its prompt
C7_Witness ==
  /\ pc = "convert"
  /\ promptLog # <<>>
  /\ LastAnswer = <<"1">>
  /\ promptLog[Len(promptLog)].idx = idx
  /\ inFlight # {}
  /\ ~overwriteAll
  /\ ~skipAll

\* C8 as stated: after an answer that is none of 0,1,2,3,4 the engine is not
\* invoked for the file the prompt was about.
C8_InvalidAnswerNoAction ==
  \A j \in Prompts :
    promptLog[j].answer \notin Recognized \cup {Pending} =>
      ~Invoked(promptLog[j].idx)

\* C8 amended: after an answer that is none of 0,1,2,3,4 the engine is
\* invoked for the file the prompt was about, that file is never recorded
\* as skipped, and the loop reaches the next file only after that
\* conversion has settled.
C8_InvalidAnswerConverts ==
  \A j \in Prompts :
    promptLog[j].answer \notin Recognized \cup {Pending} =>
      LET k == promptLog[j].idx
      IN /\ Invoked(k)
         /\ outcome[k] # "skipped"
         /\ idx > k => engineResult[k] # "none"

\* an unrecognized answer was given and the file was converted
C8_Witness ==
  \E j \in Prompts :
    /\ promptLog[j].answer = <<"x">>
    /\ outcome[promptLog[j].idx] = "converted"

fixedFlags == << <<"-gifflags">>, <<"transdiff">>, <<"-y">> >>

\* C9: for settings with non-empty scale and fps, the option list given to
\* the engine is the scale filter iff scale is not "auto", then -gifflags,
\* transdiff, -y, then the fps filter iff fps is not "auto".
C9_OptionList ==
  \A c \in Calls :
    finalScale # <<>> /\ finalFps # <<>> =>
      engineLog[c].options =
        (IF finalScale # AUTO THEN << <<"-vf scale=">> \o finalScale >> ELSE <<>>)
        \o fixedFlags
        \o (IF finalFps # AUTO THEN << <<"-vf fps=">> \o finalFps >> ELSE <<>>)

\* C10: when the engine has emitted its completion event and a stat of the
\* input or output path failed, the file is recorded as failed and the
\* process has not crashed.
C10_StatFailureRejects ==
  \A i \in Positions :
    engineResult[i] = "endStatFail" =>
      /\ outcome[i] = "failed"
      /\ pc # "crashed"

Terminated == pc \in {"done", "exited", "crashed"}

\* discovery has run in this pass and returned an empty list
DiscoveredNothing ==
  /\ videoFiles = <<>>
  /\ IF variant = "cli"
       THEN "format" \in asked
       ELSE /\ pc # "init"
            /\ Len(argv.paths) + Len(argv.tail) >= 4
            /\ format \in Formats
            /\ ~statThrows(fs, argv.paths)

\* C11: when discovery yields an empty file list the process terminates
\* with exit code 1, the engine has not been invoked and no start prompt or
\* file loop has been entered.
C11_EmptyDiscoveryExitsOne ==
  DiscoveredNothing =>
    /\ Terminated
    /\ exitCode = "1"
    /\ engineLog = <<>>
    /\ inFlight = {}

-----------------------------------------------------------------------------
(* The scale and fps prompts on their own: promptUserScale, then           *)
(* promptUserFps, are fed every short line over PromptChars and the lines  *)
(* the documentation names.  The fps prompt is explored after the scale    *)
(* prompt was answered with "auto".                                        *)

ScaleChars == {"1", "3", ".", "x", " "}
FpsChars == {"1", "6", ".", "x", " "}

ShortLines(chars) == UNION { [1..n -> chars] : n \in 0..MaxInputLen }

ScaleInputs ==
  ShortLines(ScaleChars) \cup
    { AUTO, <<"3", ".", "0">>, <<"0", ".", "2", "5">>, <<"0", ".", "2", "4">>, <<"a", "b", "c">>,
      <<"1", ".", "5", "x">>, <<"3", ".", "0", "1">> }

FpsInputs ==
  ShortLines(FpsChars) \cup
    { AUTO, <<"8">>, <<"6", "0">>, <<"7">>, <<"3", "0", ".", "5">>, <<"a", "b", "c">> }

InitPrompts ==
  /\ Init
  /\ variant = "cli"
  /\ argv.paths = <<DirA>>
  /\ fs[Key(DirA)] = <<>>
  /\ fs[Key(DirB)] = <<File("e", ".mp4")>>

NextPrompts ==
  \/ StartCli
  \/ \E answer \in ScaleInputs : AnswerScale(answer)
  \/ finalScale = AUTO /\ \E answer \in FpsInputs : AnswerFps(answer)

SpecPrompts == InitPrompts /\ [][NextPrompts]_vars

\* the whole of t is a decimal numeral: optional sign, digits, optional
\* point and digits, with at least one digit
IsNumeral(t) ==
  LET signed == t # <<>> /\ Head(t) \in {"+", "-"}
      body == IF signed THEN Tail(t) ELSE t
      ip == DigitPrefix(body)
      afterInt == Rest(body, Len(ip))
      fp == IF afterInt # <<>> /\ Head(afterInt) = "."
              THEN DigitPrefix(Tail(afterInt)) ELSE <<>>
      used == Len(ip) + (IF afterInt # <<>> /\ Head(afterInt) = "." THEN 1 + Len(fp) ELSE 0)
  IN /\ Len(ip) + Len(fp) > 0
     /\ used = Len(body)

\* the whole of t is an integer numeral: optional sign and digits
IsIntegerNumeral(t) ==
  LET signed == t # <<>> /\ Head(t) \in {"+", "-"}
      body == IF signed THEN Tail(t) ELSE t
  IN body # <<>> /\ DigitPrefix(body) = body

ScaleInRange(t) ==
  LET v == parseFloat(t)
  IN /\ ~v.neg
     /\ 100 * v.num >= ScaleMinHundredths * v.den
     /\ 100 * v.num <= ScaleMaxHundredths * v.den

FpsInRange(t) ==
  LET v == parseInt(t)
  IN ~v.neg /\ v.num >= FpsMin /\ v.num <= FpsMax

\* C12: the scale prompt maps an empty line and "auto" to "auto", accepts a
\* line that is a numeral with a value in [0.25, 3.0] and returns it, and
\* rejects every other line (among them a number followed by other
\* characters), asking again.
C12_ScaleOnlyNumeralInRange ==
  [][pc = "scale" =>
       LET t == Trim(line')
       IN IF t = <<>> \/ t = AUTO
            THEN pc' = "fps" /\ finalScale' = AUTO
            ELSE IF IsNumeral(t) /\ ScaleInRange(t)
              THEN pc' = "fps" /\ finalScale' = t
              ELSE pc' = "scale" /\ finalScale' = finalScale]_vars

\* C13: the fps prompt maps an empty line and "auto" to "auto", accepts a
\* line that is an integer numeral with a value in [8, 60] and returns it,
\* and rejects every other line (among them an integer followed by a
\* fraction or other characters), asking again.
C13_FpsOnlyIntegerInRange ==
  [][pc = "fps" =>
       LET t == Trim(line')
       IN IF t = <<>> \/ t = AUTO
            THEN pc' = "format" /\ finalFps' = AUTO
            ELSE IF IsIntegerNumeral(t) /\ FpsInRange(t)
              THEN pc' = "format" /\ finalFps' = t
              ELSE pc' = "fps" /\ finalFps' = finalFps]_vars

-----------------------------------------------------------------------------

varsButLine ==
  <<variant, argv, fs, pc, exitCode, run, restart, inputPaths, finalScale,
    finalFps, format, videoFiles, outputFolder, completedFiles, overwriteAll,
    skipAll, idx, inFlight, progress, asked, engineLog, engineResult, outcome,
    promptLog>>

\* C14: at the start prompt "1" enters the file loop at the first file,
\* "2" begins a new pass at the scale prompt, "3" ends the process with
\* exit code 0, each without invoking the engine, and any other line leaves
\* everything as it was with the prompt shown again; the file loop of
\* cli.js is entered only by "1" at the start prompt, and the engine is
\* invoked only from the file loop.
C14_StartPromptGatesEngine ==
  /\ [][pc = "start" =>
          LET t == Trim(line')
          IN CASE t = <<"1">> ->
                    /\ pc' = "iter" /\ idx' = 1 /\ run' = run
                    /\ engineLog' = engineLog /\ exitCode' = "none"
               [] t = <<"2">> ->
                    /\ pc' = "scale" /\ run' = run + 1 /\ restart' = TRUE
                    /\ engineLog' = engineLog /\ exitCode' = "none"
               [] t = <<"3">> ->
                    /\ pc' = "exited" /\ exitCode' = "0"
                    /\ engineLog' = engineLog /\ inFlight' = {}
               [] OTHER -> UNCHANGED varsButLine]_vars
  /\ [][variant = "cli" /\ pc' = "iter" /\ pc \notin {"iter", "convert", "overwrite"} =>
          pc = "start" /\ Trim(line') = <<"1">>]_vars
  /\ [][variant = "cli" /\ engineLog' # engineLog =>
          pc \in {"iter", "overwrite"} /\ engineLog'[Len(engineLog')].run = run]_vars

\* after a restart the start prompt was answered "1" and a conversion is
\* in flight
C14_Witness ==
  /\ variant = "cli"
  /\ run = 2
  /\ inFlight # {}
  /\ \A c \in Calls : engineLog[c].run = 2

-----------------------------------------------------------------------------
(* Discovery on its own: getVideoFiles / getMediaFiles applied to a list   *)
(* of paths, one forEach iteration per step.                               *)

DirD == [dir |-> Key(DirB), base |-> "d", ext |-> ".mp4"]
FileFInB == [dir |-> Key(DirB), base |-> "f", ext |-> ".avi"]

HasSub(f) == \E j \in 1..Len(f[Key(DirB)]) : f[Key(DirB)][j] = Dir("d", ".mp4")

WithSub(f) ==
  [k \in DOMAIN f \cup {Key(DirD)} |->
     IF k = Key(DirD) THEN <<File("g", ".mp4"), File("h", ".AVI")>> ELSE f[k]]

DiscoveryFilesystems == { IF HasSub(f) THEN WithSub(f) ELSE f : f \in Filesystems }

DiscoveryPathLists ==
  { <<>>, <<DirA>>, <<DirA, DirB>>, <<DirB, DirA>>, <<FileInA, DirB>>,
    <<DirB, DirD>>, <<DirA, FileInA>>, <<FileFInB, DirA>> }

InitDiscovery ==
  /\ variant \in {"cli", "convert"}
  /\ fs \in DiscoveryFilesystems
  /\ inputPaths \in DiscoveryPathLists
  /\ argv = [paths |-> inputPaths, tail |-> <<>>]
  /\ pc = "init"
  /\ exitCode = "none"
  /\ run = 1
  /\ restart = FALSE
  /\ finalScale = <<>>
  /\ finalFps = <<>>
  /\ format = "null"
  /\ videoFiles = <<>>
  /\ outputFolder = <<>>
  /\ completedFiles = 0
  /\ overwriteAll = FALSE
  /\ skipAll = FALSE
  /\ idx = 1
  /\ inFlight = {}
  /\ progress = 0
  /\ asked = {}
  /\ engineLog = <<>>
  /\ engineResult = <<>>
  /\ outcome = <<>>
  /\ promptLog = <<>>
  /\ line = <<>>

discoveryUnchanged ==
  UNCHANGED <<variant, argv, fs, run, restart, inputPaths, finalScale,
              finalFps, format, outputFolder, completedFiles, overwriteAll,
              skipAll, inFlight, progress, asked, engineLog, engineResult,
              outcome, promptLog, line>>

\* one iteration of inputPaths.forEach
DiscoverPath ==
  /\ pc = "init"
  /\ idx <= Len(inputPaths)
  /\ existsSync(fs, inputPaths[idx])
  /\ videoFiles' = videoFiles \o
       (IF variant = "cli" THEN videoFilesOf(fs, inputPaths[idx])
                           ELSE mediaFilesOf(fs, inputPaths[idx]))
  /\ idx' = idx + 1
  /\ UNCHANGED <<pc, exitCode>>
  /\ discoveryUnchanged

\* fs.statSync(inputPath) throws: nothing is returned
DiscoverThrows ==
  /\ pc = "init"
  /\ idx <= Len(inputPaths)
  /\ ~existsSync(fs, inputPaths[idx])
  /\ pc' = "crashed"
  /\ exitCode' = "1"
  /\ UNCHANGED <<videoFiles, idx>>
  /\ discoveryUnchanged

\* return videoFiles / return mediaFiles
DiscoverReturn ==
  /\ pc = "init"
  /\ idx = Len(inputPaths) + 1
  /\ pc' = "done"
  /\ UNCHANGED <<videoFiles, idx, exitCode>>
  /\ discoveryUnchanged

NextDiscovery == DiscoverPath \/ DiscoverThrows \/ DiscoverReturn

SpecDiscovery == InitDiscovery /\ [][NextDiscovery]_vars

Accepted(v) ==
  IF v = "cli" THEN {".mp4"} ELSE {".mp4", ".avi", ".jpg", ".jpeg", ".png"}

Qualifies(v, e) == e.kind = "file" /\ toLowerCase(e.ext) \in Accepted(v)

\* the entry a path names in the listing of its parent directory
Named(f, p) ==
  { e \in {f[p.dir][j] : j \in 1..Len(f[p.dir])} : e.base = p.base /\ e.ext = p.ext }

\* what one input path is to contribute, the directory entries taken by
\* their position in the listing
ExpectedOf(v, f, p) ==
  IF \E e \in Named(f, p) : e.kind = "dir"
    THEN LET L == f[Key(p)]
             I == { j \in 1..Len(L) : Qualifies(v, L[j]) }
             kth(k) == CHOOSE j \in I : Cardinality({ m \in I : m < j }) = k - 1
         IN [k \in 1..Cardinality(I) |->
               [dir |-> Key(p), base |-> L[kth(k)].base, ext |-> L[kth(k)].ext]]
    ELSE IF \E e \in Named(f, p) : Qualifies(v, e) THEN <<p>> ELSE <<>>

RECURSIVE Expected(_, _, _)
Expected(v, f, paths) ==
  IF paths = <<>> THEN <<>>
  ELSE Expected(v, f, SubSeq(paths, 1, Len(paths) - 1))
         \o ExpectedOf(v, f, paths[Len(paths)])

\* C15: after each input path the discovered list is exactly, in input
\* order, each path itself when it is a regular file with an accepted
\* extension, or else the directory's immediate regular-file entries with
\* an accepted extension in listing order; the extension is compared
\* without regard to case and the accepted set is {.mp4} in cli.js and
\* {.mp4, .avi, .jpg, .jpeg, .png} in convert.js.
C15_DiscoveryExactInOrder ==
  pc # "crashed" =>
    videoFiles = Expected(variant, fs, SubSeq(inputPaths, 1, idx - 1))

\* a file path and a directory holding an .mp4, an .avi and a directory
\* named d.mp4 that itself holds an .mp4
C15_Witness ==
  /\ pc = "done"
  /\ variant = "cli"
  /\ inputPaths = <<FileInA, DirB>>
  /\ Key(DirD) \in DOMAIN fs
  /\ videoFiles = <<FileInA, [dir |-> Key(DirB), base |-> "a", ext |-> ".mp4"]>>

-----------------------------------------------------------------------------

\* C16: the answer "0" at an overwrite prompt ends the process at once with
\* exit code 1: that step invokes no engine and changes no flag, count,
\* position or file, no conversion is left in flight, and an exited
\* process takes no further step.
C16_CancelExitsOne ==
  /\ [][pc = "overwrite" /\ Trim(line') = <<"0">> =>
          /\ pc' = "exited" /\ exitCode' = "1"
          /\ engineLog' = engineLog /\ inFlight' = {}
          /\ UNCHANGED <<overwriteAll, skipAll, completedFiles, idx, fs,
                         engineResult, outcome>>]_vars
  /\ [][pc = "exited" => UNCHANGED vars]_vars

\* cancelled at a file that is not the last, after an earlier conversion
C16_Witness ==
  /\ pc = "exited"
  /\ exitCode = "1"
  /\ promptLog # <<>>
  /\ promptLog[Len(promptLog)].answer = <<"0">>
  /\ idx < Len(videoFiles)
  /\ engineLog # <<>>

-----------------------------------------------------------------------------

\* C17: in cli.js overwriteAll and skipAll are never both true; each
\* becomes true only by an answer given at an overwrite prompt ("2" and
\* "4" respectively), and no overwrite prompt is shown or pending while
\* either of them is true.
C17_FlagsExclusive ==
  /\ [](~(overwriteAll /\ skipAll))
  /\ [](pc = "overwrite" => ~overwriteAll /\ ~skipAll)
  /\ [][(~overwriteAll /\ overwriteAll') =>
          pc = "overwrite" /\ Trim(line') = <<"2">> /\ skipAll' = skipAll]_vars
  /\ [][(~skipAll /\ skipAll') =>
          pc = "overwrite" /\ Trim(line') = <<"4">> /\ overwriteAll' = overwriteAll]_vars
  /\ [][Len(promptLog') > Len(promptLog) => ~overwriteAll /\ ~skipAll]_vars

\* overwriteAll was set at an earlier file and a later file whose output
\* exists is being converted without a prompt
C17_Witness ==
  /\ variant = "cli"
  /\ overwriteAll
  /\ pc = "convert"
  /\ existsSync(fs, outputFileOf(outputFolder, videoFiles[idx], format))
  /\ promptLog # <<>>
  /\ promptLog[Len(promptLog)].idx < idx

-----------------------------------------------------------------------------

\* the files the loop has taken from the list so far
Taken == IF pc \in {"iter", "done"} THEN idx - 1 ELSE idx

\* the engine invocations of this run whose completion event was emitted
Completions ==
  { c \in Calls :
      /\ engineLog[c].run = run
      /\ engineResult[engineLog[c].idx] \in {"end", "endStatFail"} }

\* C18: completedFiles is the number of engine invocations of the run that
\* ended with a completion event, and is at most the number of files taken
\* from the list and at most the number of discovered files.
C18_CompletedCountsCompletions ==
  /\ completedFiles = Cardinality(Completions)
  /\ completedFiles <= Taken
  /\ completedFiles <= Len(videoFiles)

-----------------------------------------------------------------------------
(* The interactive flow under the assumptions of termination: the engine   *)
(* ends every invocation with one terminal event, every stat succeeds,     *)
(* the user answers every prompt and in the end answers it validly.        *)

InitLive ==
  /\ Init
  /\ variant = "cli"
  /\ argv.paths \in { <<DirA>>, <<DirA, DirB>> }
  /\ fs[Key(DirB)] = <<File("e", ".mp4")>>

NextLive ==
  \/ StartCli
  \/ \E answer \in ScaleAnswers : AnswerScale(answer)
  \/ \E answer \in FpsAnswers : AnswerFps(answer)
  \/ \E answer \in FormatAnswers : AnswerFormat(answer)
  \/ \E answer \in StartAnswers : AnswerStart(answer)
  \/ LoopStepCli
  \/ \E answer \in OverwriteAnswers : AnswerOverwrite(answer)
  \/ EngineProgress
  \/ EngineEnd
  \/ EngineError

\* the synchronous code between two suspensions runs to the next one
FairMain == WF_vars(StartCli) /\ WF_vars(LoopStepCli)

\* .on('end') or .on('error') is emitted for every invocation
FairEngine == WF_vars(EngineEnd \/ EngineError)

\* each prompt in the end receives a line that leaves it
FairUser ==
  /\ WF_vars(\E answer \in ScaleAnswers : AnswerScale(answer) /\ pc' # pc)
  /\ WF_vars(\E answer \in FpsAnswers : AnswerFps(answer) /\ pc' # pc)
  /\ WF_vars(\E answer \in FormatAnswers : AnswerFormat(answer) /\ format' # "null")
  /\ WF_vars(\E answer \in StartAnswers : AnswerStart(answer) /\ pc' \in {"iter", "exited"})
  /\ WF_vars(\E answer \in OverwriteAnswers : AnswerOverwrite(answer))

SpecLive == InitLive /\ [][NextLive]_vars /\ FairMain /\ FairEngine /\ FairUser

\* C19: under these assumptions every run of cli.js terminates, as done
\* (after the last discovered file or on an empty discovery) or as exited
\* (cancel or exit); a run that is done has taken every discovered file,
\* the loop moves through the list one position at a time and never back,
\* and no file is given to the engine twice in a run.
C19_InteractiveRunTerminates ==
  /\ <>(pc \in {"done", "exited"})
  /\ [](pc = "done" =>
          /\ idx = Len(videoFiles) + 1
          /\ \A i \in Positions : outcome[i] # "none")
  /\ [][(pc \in {"iter", "overwrite", "convert"}
            /\ pc' \in {"iter", "overwrite", "convert", "done"}) =>
          (/\ idx' \in {idx, idx + 1}
           /\ (idx' = idx + 1) => (outcome[idx] = "none" /\ outcome'[idx] # "none"))]_vars
  /\ [](\A c, d \in Calls :
          engineLog[c].run = engineLog[d].run /\ engineLog[c].idx = engineLog[d].idx
            => c = d)

\* a finished run over several files, one converted and one failed
C19_Witness ==
  /\ variant = "cli"
  /\ pc = "done"
  /\ Len(videoFiles) >= 2
  /\ \E i \in Positions : outcome[i] = "converted"
  /\ \E i \in Positions : outcome[i] = "failed"

-----------------------------------------------------------------------------

\* the output path of the file the loop of convert.js is about to take
OutputReached == outputFileOf(outputFolder, videoFiles[idx], format)

\* C20: when the loop of convert.js reaches a file whose output path
\* exists, the file is skipped: no engine invocation, no prompt, the count
\* and the filesystem unchanged, and the loop at the next file; convert.js
\* never shows a prompt, and every engine invocation it makes is for an
\* output path that did not exist when the file was reached.
C20_ExistingOutputSkipped ==
  /\ [][(variant = "convert" /\ pc = "iter" /\ idx <= Len(videoFiles)
            /\ existsSync(fs, OutputReached)) =>
          (/\ engineLog' = engineLog /\ inFlight' = inFlight
           /\ promptLog' = promptLog /\ completedFiles' = completedFiles
           /\ fs' = fs
           /\ pc' = "iter" /\ idx' = idx + 1
           /\ outcome' = [outcome EXCEPT ![idx] = "skipped"])]_vars
  /\ [][(variant = "convert" /\ engineLog' # engineLog) =>
          (/\ pc = "iter"
           /\ engineLog' = Append(engineLog, jobFor(idx))
           /\ ~existsSync(fs, OutputReached))]_vars
  /\ [](variant = "convert" => promptLog = <<>> /\ pc # "overwrite")

\* a file was skipped for its existing output and a later one converted
C20_Witness ==
  /\ variant = "convert"
  /\ \E i, j \in Positions :
       /\ i < j
       /\ outcome[i] = "skipped"
       /\ outcome[j] = "converted"
  /\ completedFiles < Len(videoFiles)

====
